---- MODULE Spec2Model ----
(***************************************************************************)
(* FC-DenseNet (src/FC-DenseNet/model.py): the construction of the network *)
(* (build_model and its block builders, followed at the level of tensor    *)
(* shapes), the receptive field estimate (estimate_radius) and the         *)
(* per-batch steps (train_step, test_step and their distributed wrappers). *)
(*                                                                         *)
(* A tensor is the record [c, h, w] of its channel count and its spatial   *)
(* size (NCHW without the batch axis, which every layer preserves).  The   *)
(* network is built on Input(shape=(C, None, None)); the spatial size is   *)
(* that of the image the network is applied to, and every layer maps it    *)
(* the same way whenever it runs, so from the first layer on build_model   *)
(* is followed with the image's H and W in place of the two None.          *)
(***************************************************************************)
EXTENDS Integers, Sequences, FiniteSets, TLC

VARIABLES
    \* ---- class attributes and constructor arguments
    NB_DENSE_BLOCK,        \* FCDensenet.NB_DENSE_BLOCK
    NB_LAYERS_PER_BLOCK,   \* FCDensenet.NB_LAYERS_PER_BLOCK: an int, or a list (a sequence)
    nb_classes,            \* self.nb_classes
    inputs,                \* self.inputs; its None dimensions are the image's once it is fed
    \* ---- build_model
    pc,                    \* position in build_model
    err,                   \* the exception that ended it ("" when none)
    nb_layers,             \* the resolved schedule
    bottleneck_nb_layers,
    x,                     \* the running tensor
    nb_filter,
    skip_list,
    concat_list,
    block_idx,
    n_keras_layers,        \* Keras layers created so far
    down_log,              \* per TransitionDown: its input and output
    up_log,                \* per decoder stage: TransitionUp input, output, and the skip
    outputs,               \* the network's output (NHWC without N)
    \* ---- __dense_block called on its own
    db_args,
    db_ret,
    \* ---- estimate_radius
    grads,                 \* tape.gradient(loss_value, img)[0]: its nonzero entries
    radius,                \* the value returned (None before the call)
    \* ---- train_step, test_step and the distributed wrappers
    global_batch_size,     \* self.global_batch_size
    num_replicas,          \* replicas of dist_strategy
    replica,               \* per replica: its copy of the model and optimizer, its metrics
    dist,                  \* the distributed step in flight
    loss_value,            \* what the last distributed step returned
    last_call,             \* the last train_step or test_step: inputs, result, operations
    n_dist_steps

build_vars == <<NB_DENSE_BLOCK, NB_LAYERS_PER_BLOCK, nb_classes, inputs, pc, err,
                nb_layers, bottleneck_nb_layers, x, nb_filter, skip_list, concat_list,
                block_idx, n_keras_layers, down_log, up_log, outputs>>
dense_vars == <<db_args, db_ret>>
radius_vars == <<grads, radius>>
step_vars == <<global_batch_size, num_replicas, replica, dist, loss_value, last_call,
               n_dist_steps>>
vars == <<build_vars, dense_vars, radius_vars, step_vars>>

----------------------------------------------------------------------------
\* Program constants (the FCDenseNet56 preset of the class body).
RADIUS == 384
INIT_CONV_FILTERS == 48
GROWTH_RATE == 12
FCDenseNet56_NB_DENSE_BLOCK == 5
FCDenseNet56_NB_LAYERS_PER_BLOCK == 4
POOL_SIZE == 2
POOL_STRIDES == 2
UP_STRIDES == 2

\* Bounds of the model.
MaxHW == 34            \* image heights and widths 1..MaxHW (and RoundTripSizes)
MaxLayers == 3         \* layers per block 2..MaxLayers, besides the preset's
MaxListExtra == 1      \* explicit lists are up to MaxListExtra entries too long
MaxDenseLayers == 3    \* __dense_block on its own: 0..MaxDenseLayers layers
MaxDenseFilters == 2   \* ... and 0..MaxDenseFilters growth rates of filters received
MaxCells == 2          \* nonzero entries of the probe's gradient
MaxReplicas == 2       \* replicas of the distribution strategy
MaxSteps == 2          \* distributed steps run
MaxLocalBatch == 2     \* images in a replica's batch
MaxPixelLoss == 2      \* per-pixel losses 0..MaxPixelLoss (second pixel)

\* SIZE_FACTOR = 2**NB_DENSE_BLOCK
SIZE_FACTOR == 2 ^ NB_DENSE_BLOCK

\* An unknown dimension of tf.keras.Input.
None == -1

NoTensor == [c |-> 0, h |-> 0, w |-> 0]

\* No call of __dense_block on its own yet, and nothing returned.
NoCall == [x |-> NoTensor, nb_layers |-> 0, nb_filters |-> 0, growth_rate |-> 0,
           grow_nb_filters |-> FALSE]
NoReturn == [x |-> NoTensor, nb_filters |-> 0, x_list |-> <<>>]

----------------------------------------------------------------------------
\* Python list helpers.
RECURSIVE SumSeq(_)
SumSeq(s) == IF s = <<>> THEN 0 ELSE Head(s) + SumSeq(Tail(s))

\* s[::-1]
Reversed(s) == [i \in 1..Len(s) |-> s[Len(s) + 1 - i]]

\* s[1:]
DropFirst(s) == IF s = <<>> THEN <<>> ELSE Tail(s)

\* [v] * n
Repeat(v, n) == [i \in 1..n |-> v]

----------------------------------------------------------------------------
\* Layers, as maps on shapes.

\* Conv2D(filters, padding='same'), stride 1: the spatial size is kept.
Conv2D(t, filters) == [c |-> filters, h |-> t.h, w |-> t.w]

\* __conv_block: BatchNormalization, relu, Conv2D(nb_filters, 3, 'same'), Dropout.
ConvBlock(t, nb_filters) == Conv2D(t, nb_filters)

\* tf.keras.layers.concatenate(ts, axis=1) is defined when all the tensors
\* have the same spatial size; it raises otherwise.
CanConcatenate(ts) ==
    /\ ts # <<>>
    /\ \A i \in 1..Len(ts) : ts[i].h = ts[1].h /\ ts[i].w = ts[1].w

Concatenate(ts) ==
    [c |-> SumSeq([i \in 1..Len(ts) |-> ts[i].c]), h |-> ts[1].h, w |-> ts[1].w]

\* MaxPooling2D(pool_size=2, strides=2), padding 'valid': the floored number
\* of windows.  A window needs POOL_SIZE pixels: on fewer, the layer raises
\* where it runs under shape inference ("Negative dimension size caused by
\* subtracting 2 from 1", as in a traced tf.function), and gives an empty
\* tensor where it does not.
PoolRaises(n, shape_inference) == shape_inference /\ n < POOL_SIZE
PoolLength(n) == (n - POOL_SIZE + POOL_STRIDES) \div POOL_STRIDES

\* Faulty variants of UpLength: the stride left at 1; padding='valid' (the 3-wide
\* kernel then adds kernel_size - strides).
UpLengthUnitStride(n) == n
UpLengthValidPadding(n) == n * UP_STRIDES + 1

\* Conv2DTranspose(strides=2, padding='same'): the length times the stride.
UpLength(n) == n * UP_STRIDES

\* __dense_block
RECURSIVE DenseLoop(_, _, _, _, _, _)
DenseLoop(i, t, filters, x_list, growth_rate, grow_nb_filters) ==
    IF i = 0 THEN [x |-> t, nb_filters |-> filters, x_list |-> x_list]
    ELSE LET cb == ConvBlock(t, growth_rate)
         IN  DenseLoop(i - 1, Concatenate(<<t, cb>>),
                       IF grow_nb_filters THEN filters + growth_rate ELSE filters,
                       Append(x_list, cb), growth_rate, grow_nb_filters)

\* Faulty variant of DenseBlock: the filter count grows whatever the flag says.
DenseBlockAlwaysGrows(t, n_layers, nb_filters, growth_rate, grow_nb_filters) ==
    DenseLoop(n_layers, t, nb_filters, <<t>>, growth_rate, TRUE)

DenseBlock(t, n_layers, nb_filters, growth_rate, grow_nb_filters) ==
    DenseLoop(n_layers, t, nb_filters, <<t>>, growth_rate, grow_nb_filters)

\* __transition_down_block: BatchNormalization, relu, Conv2D(nb_filters, 1), MaxPooling2D.
TransitionDownRaises(t, shape_inference) ==
    PoolRaises(t.h, shape_inference) \/ PoolRaises(t.w, shape_inference)
TransitionDown(t, nb_filters) ==
    [c |-> nb_filters, h |-> PoolLength(t.h), w |-> PoolLength(t.w)]

\* __transition_up_block: Conv2DTranspose(nb_filters, 3, strides=2, 'same').
TransitionUp(t, nb_filters) ==
    [c |-> nb_filters, h |-> UpLength(t.h), w |-> UpLength(t.w)]

----------------------------------------------------------------------------
\* build_model, lines 125-136: the layers-per-block schedule.
\* type(NB_LAYERS_PER_BLOCK) is list or tuple  <=>  is_list.
\* Faulty variant of ScheduleRaises: only a list that is too short is refused.
ScheduleRaisesWhenShort(cfg, blocks) == cfg.is_list /\ Len(cfg.value) < blocks + 1

ScheduleRaises(cfg, blocks) == cfg.is_list /\ Len(cfg.value) # blocks + 1

\* Faulty variant of ResolveSchedule: the list is extended by itself, not mirrored.
ResolveScheduleNoMirror(cfg, blocks) ==
    IF cfg.is_list
    THEN [nb_layers |-> cfg.value \o SubSeq(cfg.value, 1, Len(cfg.value) - 1),
          bottleneck_nb_layers |-> cfg.value[Len(cfg.value)]]
    ELSE [nb_layers |-> Repeat(cfg.value, 2 * blocks + 1),
          bottleneck_nb_layers |-> cfg.value]

ResolveSchedule(cfg, blocks) ==
    IF cfg.is_list
    THEN [nb_layers |-> cfg.value \o DropFirst(Reversed(cfg.value)),
          bottleneck_nb_layers |-> cfg.value[Len(cfg.value)]]
    ELSE [nb_layers |-> Repeat(cfg.value, 2 * blocks + 1),
          bottleneck_nb_layers |-> cfg.value]

\* Keras layers one __dense_block call creates: per layer the four of
\* __conv_block and one concatenate.
DenseBlockLayerCount(n_layers) == 5 * n_layers

----------------------------------------------------------------------------
\* Configurations and images.
BlockChoices == {1, 2, FCDenseNet56_NB_DENSE_BLOCK}
LayerChoices == (2..MaxLayers) \cup {FCDenseNet56_NB_LAYERS_PER_BLOCK}
FCDenseNet103_NB_LAYERS_PER_BLOCK == <<4, 5, 7, 10, 12, 15>>

\* Explicit lists: start, start + step, start + 2*step, ...
Ramp(len, start, step) == [i \in 1..len |-> start + step * (i - 1)]

ListChoices(blocks) ==
    {Ramp(len, start, step) : len \in 0..(blocks + 1 + MaxListExtra),
                              start \in 2..MaxLayers, step \in 0..1}
        \cup {FCDenseNet103_NB_LAYERS_PER_BLOCK}

ConfigChoices(blocks) ==
    {[is_list |-> FALSE, value |-> n] : n \in LayerChoices}
        \cup {[is_list |-> TRUE, value |-> l] : l \in ListChoices(blocks)}

\* The class as written (FCDenseNet56), build_model not running; mode is
\* "idle" (no instance) or "built" (after __init__).
ClassPreset(mode) ==
    /\ NB_DENSE_BLOCK = FCDenseNet56_NB_DENSE_BLOCK
    /\ NB_LAYERS_PER_BLOCK = [is_list |-> FALSE, value |-> FCDenseNet56_NB_LAYERS_PER_BLOCK]
    /\ nb_classes = 2
    /\ inputs = [c |-> 1, h |-> None, w |-> None]
    /\ pc = mode
    /\ err = ""
    /\ nb_layers = <<>>
    /\ bottleneck_nb_layers = 0
    /\ x = NoTensor
    /\ nb_filter = 0
    /\ skip_list = <<>>
    /\ concat_list = <<>>
    /\ block_idx = 0
    /\ n_keras_layers = 0
    /\ down_log = <<>>
    /\ up_log = <<>>
    /\ outputs = NoTensor

\* estimate_radius not called.
RadiusIdle ==
    /\ grads = {}
    /\ radius = None

\* No step run.  A loss is the fraction n/d in lowest terms.
NoLoss == [n |-> 0, d |-> 1]
NoStep == [kind |-> "none", replica |-> 0, batch |-> <<>>, loss |-> NoLoss, ops |-> <<>>]
NoDist == [kind |-> "none", phase |-> "idle", pending |-> {}, per_gpu_loss |-> <<>>]

StepIdle ==
    /\ global_batch_size = 1
    /\ num_replicas = 1
    /\ replica = <<>>
    /\ dist = NoDist
    /\ loss_value = NoLoss
    /\ last_call = NoStep
    /\ n_dist_steps = 0

RoundTripSizes == {64}
SizeChoices == (1..MaxHW) \cup RoundTripSizes

InitBuild ==
    /\ NB_DENSE_BLOCK \in BlockChoices
    /\ NB_LAYERS_PER_BLOCK \in ConfigChoices(NB_DENSE_BLOCK)
    /\ nb_classes = 2
    /\ \E number_channels \in {1} : inputs = [c |-> number_channels, h |-> None, w |-> None]
    /\ pc = "schedule"
    /\ err = ""
    /\ nb_layers = <<>>
    /\ bottleneck_nb_layers = 0
    /\ x = NoTensor
    /\ nb_filter = 0
    /\ skip_list = <<>>
    /\ concat_list = <<>>
    /\ block_idx = 0
    /\ n_keras_layers = 0
    /\ down_log = <<>>
    /\ up_log = <<>>
    /\ outputs = NoTensor
    /\ db_args = NoCall
    /\ db_ret = NoReturn
    /\ RadiusIdle
    /\ StepIdle

\* Lines 125-138.
Schedule ==
    /\ pc = "schedule"
    /\ IF ScheduleRaises(NB_LAYERS_PER_BLOCK, NB_DENSE_BLOCK)
       THEN /\ pc' = "raised"
            /\ err' = "RuntimeError: length must be (nb_dense_block + 1)"
            /\ UNCHANGED <<nb_layers, bottleneck_nb_layers>>
       ELSE LET r == ResolveSchedule(NB_LAYERS_PER_BLOCK, NB_DENSE_BLOCK)
            IN  /\ pc' = "stem"
                /\ nb_layers' = r.nb_layers
                /\ bottleneck_nb_layers' = r.bottleneck_nb_layers
                /\ err' = err
    /\ UNCHANGED <<NB_DENSE_BLOCK, NB_LAYERS_PER_BLOCK, nb_classes, inputs, x, nb_filter,
                   skip_list, concat_list, block_idx, n_keras_layers, down_log, up_log,
                   outputs,
                   dense_vars, radius_vars, step_vars>>

\* Lines 140-151: Conv2D, BatchNormalization, Activation, on an H x W image.
InitialConv ==
    /\ pc = "stem"
    /\ \E H \in SizeChoices, W \in SizeChoices : inputs' = [inputs EXCEPT !.h = H, !.w = W]
    /\ x' = Conv2D(inputs', INIT_CONV_FILTERS)
    /\ nb_filter' = INIT_CONV_FILTERS
    /\ skip_list' = <<>>
    /\ n_keras_layers' = n_keras_layers + 3
    /\ block_idx' = 0
    /\ pc' = "down"
    /\ UNCHANGED <<NB_DENSE_BLOCK, NB_LAYERS_PER_BLOCK, nb_classes, err, nb_layers,
                   bottleneck_nb_layers, concat_list, down_log, up_log, outputs,
                   dense_vars, radius_vars, step_vars>>

\* Lines 154-158: one pass of the downsampling loop.
EncoderStage ==
    /\ pc = "down"
    /\ block_idx < NB_DENSE_BLOCK
    /\ \E d \in {DenseBlock(x, nb_layers[block_idx + 1], nb_filter, GROWTH_RATE, TRUE)},
          shape_inference \in BOOLEAN :
             /\ skip_list' = Append(skip_list, d.x)
             /\ nb_filter' = d.nb_filters
             /\ IF TransitionDownRaises(d.x, shape_inference)
                THEN /\ pc' = "raised"
                     /\ err' = "ValueError: negative dimension size"
                     /\ x' = d.x
                     /\ n_keras_layers' = n_keras_layers
                           + DenseBlockLayerCount(nb_layers[block_idx + 1]) + 3
                     /\ UNCHANGED <<block_idx, down_log>>
                ELSE /\ x' = TransitionDown(d.x, d.nb_filters)
                     /\ down_log' = Append(down_log,
                                       [in |-> d.x, out |-> TransitionDown(d.x, d.nb_filters)])
                     /\ n_keras_layers' = n_keras_layers
                           + DenseBlockLayerCount(nb_layers[block_idx + 1]) + 4
                     /\ block_idx' = block_idx + 1
                     /\ UNCHANGED <<pc, err>>
    /\ UNCHANGED <<NB_DENSE_BLOCK, NB_LAYERS_PER_BLOCK, nb_classes, inputs, nb_layers,
                   bottleneck_nb_layers, concat_list, up_log, outputs,
                   dense_vars, radius_vars, step_vars>>

\* Lines 160-166: the bottleneck block, then skip_list reversed.
Bottleneck ==
    /\ pc = "down"
    /\ block_idx = NB_DENSE_BLOCK
    /\ \E d \in {DenseBlock(x, bottleneck_nb_layers, nb_filter, GROWTH_RATE, TRUE)} :
           /\ nb_filter' = d.nb_filters
           /\ concat_list' = d.x_list
    /\ n_keras_layers' = n_keras_layers + DenseBlockLayerCount(bottleneck_nb_layers)
    /\ skip_list' = Reversed(skip_list)
    /\ block_idx' = 0
    /\ pc' = "up"
    /\ UNCHANGED <<NB_DENSE_BLOCK, NB_LAYERS_PER_BLOCK, nb_classes, inputs, err, nb_layers,
                   bottleneck_nb_layers, x, down_log, up_log, outputs,
                   dense_vars, radius_vars, step_vars>>

\* Lines 169-183: one pass of the upsampling loop.
DecoderStage ==
    /\ pc = "up"
    /\ block_idx < NB_DENSE_BLOCK
    /\ LET n_filters_keep == GROWTH_RATE * nb_layers[NB_DENSE_BLOCK + block_idx + 1]
           l == Concatenate(DropFirst(concat_list))
           t == TransitionUp(l, n_filters_keep)
           skip == skip_list[block_idx + 1]
       IN  /\ up_log' = Append(up_log, [l |-> l, t |-> t, skip |-> skip])
           /\ IF ~CanConcatenate(<<t, skip>>)
              THEN /\ pc' = "raised"
                   /\ err' = "ValueError: concatenate: mismatched shapes"
                   /\ n_keras_layers' = n_keras_layers + 2
                   /\ UNCHANGED <<x, nb_filter, concat_list, block_idx>>
              ELSE \E d \in {DenseBlock(Concatenate(<<t, skip>>),
                                       nb_layers[NB_DENSE_BLOCK + block_idx + 2],
                                       GROWTH_RATE, GROWTH_RATE, FALSE)} :
                       /\ x' = Concatenate(<<t, skip>>)
                       /\ nb_filter' = d.nb_filters
                       /\ concat_list' = d.x_list
                       /\ n_keras_layers' = n_keras_layers + 3
                             + DenseBlockLayerCount(nb_layers[NB_DENSE_BLOCK + block_idx + 2])
                       /\ block_idx' = block_idx + 1
                       /\ UNCHANGED <<pc, err>>
    /\ UNCHANGED <<NB_DENSE_BLOCK, NB_LAYERS_PER_BLOCK, nb_classes, inputs, nb_layers,
                   bottleneck_nb_layers, skip_list, down_log, outputs,
                   dense_vars, radius_vars, step_vars>>

\* Lines 185-195: concatenate, the 1x1 'logit' convolution, Permute((2, 3, 1)), Softmax.
FinalConv ==
    /\ pc = "up"
    /\ block_idx = NB_DENSE_BLOCK
    /\ x' = Conv2D(Concatenate(DropFirst(concat_list)), nb_classes)
    /\ outputs' = x'
    /\ n_keras_layers' = n_keras_layers + 4
    /\ pc' = "built"
    /\ UNCHANGED <<NB_DENSE_BLOCK, NB_LAYERS_PER_BLOCK, nb_classes, inputs, err, nb_layers,
                   bottleneck_nb_layers, nb_filter, skip_list, concat_list, block_idx,
                   down_log, up_log,
                   dense_vars, radius_vars, step_vars>>

NextBuild ==
    \/ Schedule
    \/ InitialConv
    \/ EncoderStage
    \/ Bottleneck
    \/ DecoderStage
    \/ FinalConv

----------------------------------------------------------------------------
\* __dense_block called on its own, on any layer count from 0.

GrowthRateChoices == {GROWTH_RATE, 16}      \* FCDenseNet56; FCDenseNet67 and 103
DenseInputChoices == {[c |-> c, h |-> 32, w |-> 64] : c \in {1, INIT_CONV_FILTERS}}

DenseCallChoices ==
    {[x |-> t, nb_layers |-> n, nb_filters |-> f * k, growth_rate |-> k,
      grow_nb_filters |-> g] :
        t \in DenseInputChoices, n \in 0..MaxDenseLayers, f \in 0..MaxDenseFilters,
        k \in GrowthRateChoices, g \in BOOLEAN}

InitDense ==
    /\ ClassPreset("idle")
    /\ db_args \in DenseCallChoices
    /\ db_ret = NoReturn
    /\ RadiusIdle
    /\ StepIdle

CallDenseBlock ==
    /\ db_ret = NoReturn
    /\ db_ret' = DenseBlock(db_args.x, db_args.nb_layers, db_args.nb_filters,
                            db_args.growth_rate, db_args.grow_nb_filters)
    /\ UNCHANGED <<db_args, build_vars, radius_vars, step_vars>>

NextDense == CallDenseBlock

SpecDense == InitDense /\ [][NextDense]_vars

----------------------------------------------------------------------------
\* estimate_radius.  Gradient values are in units of 1e-9, so eps = 1e-8 is
\* EPS = 10.  grads holds the nonzero entries [ch, m, n, g] of the gradient
\* with respect to the 1 x C x M x N probe image; every other entry is 0.
EPS == 10
M == 64
N == 2 * RADIUS

Abs(v) == IF v < 0 THEN -v ELSE v

RECURSIVE SumSet(_)
SumSet(S) == IF S = {} THEN 0
             ELSE LET e == CHOOSE e \in S : TRUE IN e.g + SumSet(S \ {e})

Max(S) == CHOOSE v \in S : \A u \in S : u <= v
Min(S) == CHOOSE v \in S : \A u \in S : v <= u

\* np.abs(grads[0].numpy().squeeze())
AbsGrads(g) == {[c EXCEPT !.g = Abs(c.g)] : c \in g}

\* Lines 239-240: np.average over the channel axis when there are several
\* channels.  GradImg(g, m, n) is the entry times its denominator GradImgDen.
GradImgDen == IF inputs.c > 1 THEN inputs.c ELSE 1
GradImg(g, m, n) == SumSet({c \in AbsGrads(g) : c.m = m /\ c.n = n})

\* Line 246: vec = np.max(grad_img, axis=0); a row without a nonzero entry
\* holds 0 in that column.
Vec(g, n) == Max({GradImg(g, m, n) : m \in {c.m : c \in g}} \cup {0})

\* Line 247: idx = np.nonzero(vec > eps)[0]; a column without a nonzero entry
\* is not above eps.
Idx(g) == {n \in {c.n : c \in g} : Vec(g, n) > EPS * GradImgDen}

\* Faulty variant of ProbeFailed: only an empty idx falls back.
ProbeFailedWhenEmpty(idx) == Cardinality(idx) < 1

\* Line 248: len(idx) < 2
ProbeFailed(idx) == Cardinality(idx) < 2

\* Line 252: erf = int((np.max(idx) - np.min(idx)) / 2)
Erf(idx) == (Max(idx) - Min(idx)) \div 2

\* Faulty variant of RoundRadius: np.floor in place of np.ceil.
RoundRadiusDown(r) == SIZE_FACTOR * (r \div SIZE_FACTOR)

\* __round_radius: int(SIZE_FACTOR * np.ceil(float(x) / SIZE_FACTOR))
RoundRadius(r) == SIZE_FACTOR * ((r + SIZE_FACTOR - 1) \div SIZE_FACTOR)

\* The gradients tried: up to MaxCells nonzero entries, in the first or the
\* last row, in columns at both ends and around the middle of the image.
ChannelChoices == {1, 2}
RowChoices == {0, M - 1}
ColChoices == {0, 1, 66, N \div 2 - 1, N \div 2, 700, N - 2, N - 1}
GradValueChoices == {-1000, EPS, 25}

CellChoices(number_channels) ==
    [ch : 0..(number_channels - 1), m : RowChoices, n : ColChoices, g : GradValueChoices]

\* k entries at different places, listed in the order of their places.
Place(c) == (c.n * M + c.m) * 2 + c.ch
GradChoices(number_channels, k) ==
    {cells \in [1..k -> CellChoices(number_channels)] :
        \A i \in 1..(k - 1) : Place(cells[i]) < Place(cells[i + 1])}

InitRadius ==
    /\ ClassPreset("built")
    /\ db_args = NoCall
    /\ db_ret = NoReturn
    /\ RadiusIdle
    /\ StepIdle

\* Lines 214-255, one call.  The network is applied to the M x N probe, both
\* multiples of SIZE_FACTOR; the tape's gradient is whatever the weights give.
EstimateRadius ==
    /\ pc = "built"
    /\ radius = None
    /\ \E number_channels \in ChannelChoices, k \in 0..MaxCells :
         \E cells \in GradChoices(number_channels, k) :
           /\ inputs' = [inputs EXCEPT !.c = number_channels]
           /\ grads' = {cells[i] : i \in 1..k}
           /\ \E idx \in {Idx(grads)'} :
                radius' = IF ProbeFailed(idx) THEN RADIUS ELSE RoundRadius(Erf(idx))
    /\ UNCHANGED <<NB_DENSE_BLOCK, NB_LAYERS_PER_BLOCK, nb_classes, pc, err, nb_layers,
                   bottleneck_nb_layers, x, nb_filter, skip_list, concat_list, block_idx,
                   n_keras_layers, down_log, up_log, outputs, dense_vars, step_vars>>

NextRadius == EstimateRadius

SpecRadius == InitRadius /\ [][NextRadius]_vars

----------------------------------------------------------------------------
\* train_step, test_step, dist_train_step, dist_test_step.
\*
\* A batch is what self.loss_fn(labels, softmax) gives with Reduction.NONE:
\* one loss per image and pixel, batch[i][p] for image i and pixel p (the
\* H x W pixels in one row).  Losses are exact fractions.

RECURSIVE GCD(_, _)
GCD(a, b) == IF b = 0 THEN a ELSE GCD(b, a % b)

Rat(n, d) == [n |-> n \div GCD(n, d), d |-> d \div GCD(n, d)]
RatAdd(a, b) == Rat(a.n * b.d + b.n * a.d, a.d * b.d)
RatDiv(a, k) == Rat(a.n, a.d * k)
RatTimes(a, k) == Rat(a.n * k, a.d)

RECURSIVE RatSum(_)
RatSum(s) == IF s = <<>> THEN Rat(0, 1) ELSE RatAdd(Head(s), RatSum(Tail(s)))

\* tf.reduce_sum(loss_value, axis=0)
ReduceSumBatchAxis(batch) ==
    [p \in 1..Len(batch[1]) |-> SumSeq([i \in 1..Len(batch) |-> batch[i][p]])]

\* tf.reduce_mean(loss_value)
ReduceMean(s) == RatDiv(RatSum(s), Len(s))

\* Faulty variant of StepLoss: the mean over the images of the batch at hand.
StepLossLocalBatch(batch, batch_size) ==
    LET summed == ReduceSumBatchAxis(batch)
    IN  ReduceMean([p \in 1..Len(summed) |-> Rat(summed[p], Len(batch))])

\* Lines 264-268 and 294-298: sum over the batch axis, divide by
\* self.global_batch_size, mean over H and W.
StepLoss(batch, batch_size) ==
    LET summed == ReduceSumBatchAxis(batch)
    IN  ReduceMean([p \in 1..Len(summed) |-> Rat(summed[p], batch_size)])

\* A replica: its copy of the weights and of the optimizer's state (each a
\* count of the updates applied to it), the two metrics (counts of
\* update_state calls), and the calls it ran.
FreshReplica == [weights |-> 0, iterations |-> 0, loss_metric |-> 0,
                 accuracy_metric |-> 0, n_train |-> 0, n_test |-> 0]

\* train_step, lines 257-281.
TrainStep(r, batch, batch_size) ==
    [replica |-> [r EXCEPT !.weights = @ + 1, !.iterations = @ + 1,
                           !.loss_metric = @ + 1, !.accuracy_metric = @ + 1,
                           !.n_train = @ + 1],
     loss |-> StepLoss(batch, batch_size),
     ops |-> <<"model(training=True)", "loss_fn", "tape.gradient",
               "optimizer.apply_gradients", "loss_metric.update_state",
               "accuracy_metric.update_state">>]

\* Faulty variant of TestStep: it takes the optimizer step of train_step too.
TestStepUpdates(r, batch, batch_size) ==
    [replica |-> [r EXCEPT !.weights = @ + 1, !.iterations = @ + 1,
                           !.loss_metric = @ + 1, !.accuracy_metric = @ + 1,
                           !.n_test = @ + 1],
     loss |-> StepLoss(batch, batch_size),
     ops |-> <<"model(training=False)", "loss_fn", "tape.gradient",
               "optimizer.apply_gradients", "loss_metric.update_state",
               "accuracy_metric.update_state">>]

\* test_step, lines 290-303.
TestStep(r, batch, batch_size) ==
    [replica |-> [r EXCEPT !.loss_metric = @ + 1, !.accuracy_metric = @ + 1,
                           !.n_test = @ + 1],
     loss |-> StepLoss(batch, batch_size),
     ops |-> <<"model(training=False)", "loss_fn", "loss_metric.update_state",
               "accuracy_metric.update_state">>]

\* Faulty variant of ReduceSum: ReduceOp.MEAN.
ReduceAsMean(per_gpu_loss) ==
    RatDiv(RatSum([i \in 1..Len(per_gpu_loss) |-> per_gpu_loss[i].loss]), Len(per_gpu_loss))

\* dist_strategy.reduce(tf.distribute.ReduceOp.SUM, per_gpu_loss, axis=None),
\* adding the replicas' losses as they came in.
ReduceSum(per_gpu_loss) ==
    RatSum([i \in 1..Len(per_gpu_loss) |-> per_gpu_loss[i].loss])

\* The batches tried: image i has loss i at the first pixel and b at the second.
GlobalBatchChoices == {1, 2, 4}
BatchChoices ==
    {[i \in 1..n |-> <<i, b>>] : n \in 1..MaxLocalBatch, b \in 0..MaxPixelLoss}

InitStep ==
    /\ ClassPreset("built")
    /\ db_args = NoCall
    /\ db_ret = NoReturn
    /\ RadiusIdle
    /\ global_batch_size \in GlobalBatchChoices
    /\ num_replicas \in 1..MaxReplicas
    /\ replica = [w \in 1..num_replicas |-> FreshReplica]
    /\ dist = NoDist
    /\ loss_value = NoLoss
    /\ last_call = NoStep
    /\ n_dist_steps = 0

\* dist_strategy.experimental_run_v2(step, args=(inputs,)) starts the step on
\* every replica.
RunOnReplicas(kind) ==
    /\ dist.phase \in {"idle", "reduced"}
    /\ n_dist_steps < MaxSteps
    /\ n_dist_steps' = n_dist_steps + 1
    /\ dist' = [kind |-> kind, phase |-> "running", pending |-> 1..num_replicas,
                per_gpu_loss |-> <<>>]
    /\ loss_value' = NoLoss
    /\ last_call' = NoStep
    /\ UNCHANGED <<global_batch_size, num_replicas, replica, build_vars, dense_vars,
                   radius_vars>>

\* A replica's step returns; the replicas finish in any order.
ReplicaReturns(w, kind, r, batch) ==
    /\ replica' = [replica EXCEPT ![w] = r.replica]
    /\ dist' = [dist EXCEPT !.pending = @ \ {w},
                            !.per_gpu_loss = Append(@, [replica |-> w, loss |-> r.loss])]
    /\ last_call' = [kind |-> kind, replica |-> w, batch |-> batch, loss |-> r.loss,
                     ops |-> r.ops]
    /\ UNCHANGED <<global_batch_size, num_replicas, loss_value, n_dist_steps, build_vars,
                   dense_vars, radius_vars>>

\* Line 286 and line 308.
ReduceLosses(kind) ==
    /\ dist.kind = kind
    /\ dist.phase = "running"
    /\ dist.pending = {}
    /\ loss_value' = ReduceSum(dist.per_gpu_loss)
    /\ dist' = [dist EXCEPT !.phase = "reduced"]
    /\ UNCHANGED <<global_batch_size, num_replicas, replica, last_call, n_dist_steps,
                   build_vars, dense_vars, radius_vars>>

\* dist_train_step, line 285.
DistTrainStepRun == RunOnReplicas("train")

\* train_step on one replica's shard.
ReplicaTrainStep ==
    /\ dist.kind = "train"
    /\ dist.phase = "running"
    /\ \E w \in dist.pending, batch \in BatchChoices :
         \E r \in {TrainStep(replica[w], batch, global_batch_size)} :
           ReplicaReturns(w, "train", r, batch)

\* dist_train_step, lines 286-288.
DistTrainStepReduce == ReduceLosses("train")

\* dist_test_step, line 307.
DistTestStepRun == RunOnReplicas("test")

\* test_step on one replica's shard.
ReplicaTestStep ==
    /\ dist.kind = "test"
    /\ dist.phase = "running"
    /\ \E w \in dist.pending, batch \in BatchChoices :
         \E r \in {TestStep(replica[w], batch, global_batch_size)} :
           ReplicaReturns(w, "test", r, batch)

\* dist_test_step, lines 308-309.
DistTestStepReduce == ReduceLosses("test")

NextStep ==
    \/ DistTrainStepRun
    \/ ReplicaTrainStep
    \/ DistTrainStepReduce
    \/ DistTestStepRun
    \/ ReplicaTestStep
    \/ DistTestStepReduce

SpecStep == InitStep /\ [][NextStep]_vars

----------------------------------------------------------------------------
\* Claims about the steps.

StepCalled == last_call.kind # "none"
BatchTotal(batch) == SumSeq(ReduceSumBatchAxis(batch))
NumPixels(batch) == Len(batch[1])

\* C4: the loss train_step and test_step report is the sum of the batch's
\* per-pixel losses over global_batch_size (then the mean over the pixels),
\* whatever the number of images in the replica's own batch; with
\* global_batch_size doubled the same batch gives half the loss.
C4_LossOverGlobalBatchSize ==
    StepCalled =>
        /\ last_call.loss = Rat(BatchTotal(last_call.batch),
                                global_batch_size * NumPixels(last_call.batch))
        /\ RatTimes(StepLoss(last_call.batch, 2 * global_batch_size), 2) = last_call.loss

C4_Witness ==
    /\ last_call.kind = "train"
    /\ Len(last_call.batch) = 2
    /\ global_batch_size = 4
    /\ last_call.loss = [n |-> 7, d |-> 8]

Finished == {dist.per_gpu_loss[i] : i \in 1..Len(dist.per_gpu_loss)}
LossOf(w) == (CHOOSE e \in Finished : e.replica = w).loss

\* C5: once dist_train_step or dist_test_step has reduced, every replica has
\* run the step exactly once, and the loss returned is the sum of the
\* replicas' losses taken in replica order, whatever order they finished in;
\* W replicas with the same loss v give W * v.
C5_DistLossIsSum ==
    dist.phase = "reduced" =>
        /\ Len(dist.per_gpu_loss) = num_replicas
        /\ {e.replica : e \in Finished} = 1..num_replicas
        /\ \A w \in 1..num_replicas : replica[w].n_train + replica[w].n_test = n_dist_steps
        /\ loss_value = RatSum([w \in 1..num_replicas |-> LossOf(w)])
        /\ (\A w \in 1..num_replicas : LossOf(w) = LossOf(1)) =>
               loss_value = RatTimes(LossOf(1), num_replicas)

C5_Witness ==
    /\ dist.phase = "reduced"
    /\ dist.kind = "test"
    /\ num_replicas = 2
    /\ dist.per_gpu_loss[1].replica = 2
    /\ LossOf(1) = [n |-> 3, d |-> 4]
    /\ LossOf(2) = [n |-> 3, d |-> 4]
    /\ loss_value = [n |-> 3, d |-> 2]

Count(s, e) == Cardinality({i \in 1..Len(s) : s[i] = e})
Position(s, e) == CHOOSE i \in 1..Len(s) : s[i] = e

UpdatesMatchTrainSteps ==
    \A w \in 1..num_replicas :
        /\ replica[w].iterations = replica[w].n_train
        /\ replica[w].weights = replica[w].n_train
        /\ replica[w].loss_metric = replica[w].n_train + replica[w].n_test
        /\ replica[w].accuracy_metric = replica[w].n_train + replica[w].n_test

StepOrder ==
    /\ last_call.kind = "train" =>
           /\ Count(last_call.ops, "optimizer.apply_gradients") = 1
           /\ Count(last_call.ops, "loss_metric.update_state") = 1
           /\ Count(last_call.ops, "accuracy_metric.update_state") = 1
           /\ Position(last_call.ops, "tape.gradient")
                  < Position(last_call.ops, "optimizer.apply_gradients")
           /\ Position(last_call.ops, "optimizer.apply_gradients")
                  < Position(last_call.ops, "loss_metric.update_state")
           /\ Position(last_call.ops, "optimizer.apply_gradients")
                  < Position(last_call.ops, "accuracy_metric.update_state")
    /\ last_call.kind = "test" =>
           /\ Count(last_call.ops, "optimizer.apply_gradients") = 0
           /\ Count(last_call.ops, "tape.gradient") = 0
           /\ Count(last_call.ops, "loss_metric.update_state") = 1
           /\ Count(last_call.ops, "accuracy_metric.update_state") = 1

StepFrame ==
    \A w \in 1..num_replicas :
        /\ replica'[w].n_test = replica[w].n_test + 1 =>
               /\ replica'[w].weights = replica[w].weights
               /\ replica'[w].iterations = replica[w].iterations
               /\ replica'[w].loss_metric = replica[w].loss_metric + 1
               /\ replica'[w].accuracy_metric = replica[w].accuracy_metric + 1
        /\ replica'[w].n_train = replica[w].n_train + 1 =>
               /\ replica'[w].weights # replica[w].weights
               /\ replica'[w].iterations = replica[w].iterations + 1
               /\ replica'[w].loss_metric = replica[w].loss_metric + 1
               /\ replica'[w].accuracy_metric = replica[w].accuracy_metric + 1
        /\ (replica'[w].n_test = replica[w].n_test /\ replica'[w].n_train = replica[w].n_train)
               => replica'[w] = replica[w]

\* C8: on each copy of the model the optimizer updates applied number the
\* train_step calls run; a train_step takes its gradients, applies one
\* optimizer update and then updates each metric once; a test_step changes
\* neither the weights nor the optimizer's state and updates each metric once.
C8_OneUpdatePerTrainStep ==
    /\ [](UpdatesMatchTrainSteps /\ StepOrder)
    /\ [][StepFrame]_vars

C8_Witness ==
    /\ num_replicas = 1
    /\ replica[1].n_train = 1
    /\ replica[1].n_test = 1
    /\ replica[1].iterations = 1
    /\ replica[1].loss_metric = 2
    /\ last_call.kind = "test"

----------------------------------------------------------------------------
\* Claims about estimate_radius.

RadiusReturned == radius # None

\* C6: when fewer than 2 columns of the gradient profile exceed eps (an
\* all-zero gradient, or one nowhere above eps, among them) estimate_radius
\* returns exactly RADIUS.
C6_FlatGradientGivesRadius ==
    (RadiusReturned /\ Cardinality(Idx(grads)) < 2) => radius = RADIUS

C6_Witness ==
    /\ RadiusReturned
    /\ Cardinality(Idx(grads)) = 1
    /\ Cardinality(grads) = 2
    /\ radius = RADIUS

\* C10: with at least 2 columns above eps the value returned is the smallest
\* multiple of SIZE_FACTOR that is >= floor((last - first) / 2); and whatever
\* the branch, the value is a multiple of SIZE_FACTOR within 0..RADIUS.
C10_RadiusRoundedUp ==
    RadiusReturned =>
        /\ radius % SIZE_FACTOR = 0
        /\ radius \in 0..RADIUS
        /\ Cardinality(Idx(grads)) >= 2 =>
               LET half == (Max(Idx(grads)) - Min(Idx(grads))) \div 2
               IN  /\ radius >= half
                   /\ radius - SIZE_FACTOR < half

C10_Witness ==
    /\ RadiusReturned
    /\ Idx(grads) = {0, 66}
    /\ radius = 64

SpecBuild == InitBuild /\ [][NextBuild]_vars

----------------------------------------------------------------------------
\* Claims about build_model.

Multiple(n) == n % SIZE_FACTOR = 0
Fed == inputs.h # None
BuildEnded == pc \in {"built", "raised"}
SameSize(a, b) == a.h = b.h /\ a.w = b.w
LastUp == up_log[Len(up_log)]

\* C1: on an image whose H and W are multiples of 2^blocks, no layer raises,
\* every TransitionDown halves H and W exactly, every TransitionUp doubles
\* them exactly and gives the size of the skip connection it is concatenated
\* with, and the network built (after `blocks` stages each way) gives an
\* output of the image's H and W.
C1_OutputSizeEqualsInput ==
    (Fed /\ Multiple(inputs.h) /\ Multiple(inputs.w)) =>
        /\ pc # "raised"
        /\ \A i \in 1..Len(down_log) :
               /\ down_log[i].in.h = 2 * down_log[i].out.h
               /\ down_log[i].in.w = 2 * down_log[i].out.w
        /\ \A i \in 1..Len(up_log) :
               /\ up_log[i].t.h = 2 * up_log[i].l.h
               /\ up_log[i].t.w = 2 * up_log[i].l.w
               /\ SameSize(up_log[i].t, up_log[i].skip)
        /\ pc = "built" =>
               /\ Len(down_log) = NB_DENSE_BLOCK
               /\ Len(up_log) = NB_DENSE_BLOCK
               /\ outputs.h = inputs.h
               /\ outputs.w = inputs.w
               /\ outputs.c = nb_classes

C1_Witness ==
    /\ pc = "built"
    /\ NB_DENSE_BLOCK = 5
    /\ NB_LAYERS_PER_BLOCK.is_list
    /\ inputs.h = 32
    /\ inputs.w = 64

\* C2: a list whose length is not NB_DENSE_BLOCK + 1 makes build_model raise
\* its RuntimeError before any layer is created; no schedule is made of it
\* (neither truncated nor padded) and no network is returned.
C2_BadListLengthRaises ==
    (NB_LAYERS_PER_BLOCK.is_list /\ Len(NB_LAYERS_PER_BLOCK.value) # NB_DENSE_BLOCK + 1) =>
        /\ pc \in {"schedule", "raised"}
        /\ pc = "raised" => err = "RuntimeError: length must be (nb_dense_block + 1)"
        /\ n_keras_layers = 0
        /\ nb_layers = <<>>
        /\ outputs = NoTensor

C2_Witness ==
    /\ pc = "raised"
    /\ NB_LAYERS_PER_BLOCK.is_list
    /\ Len(NB_LAYERS_PER_BLOCK.value) = NB_DENSE_BLOCK + 2

\* C3: once resolved, the schedule has 2*blocks+1 entries; a scalar n gives n
\* everywhere; a list l gives l followed by its reverse without the
\* bottleneck entry; entry `blocks` is the bottleneck count, and the schedule
\* reads the same from both ends.
C3_ScheduleMirrored ==
    (pc \notin {"schedule", "raised"} \/ nb_layers # <<>>) =>
        /\ Len(nb_layers) = 2 * NB_DENSE_BLOCK + 1
        /\ nb_layers[NB_DENSE_BLOCK + 1] = bottleneck_nb_layers
        /\ \A i \in 0..(2 * NB_DENSE_BLOCK) :
               nb_layers[i + 1] = nb_layers[2 * NB_DENSE_BLOCK - i + 1]
        /\ IF NB_LAYERS_PER_BLOCK.is_list
           THEN /\ \A i \in 0..NB_DENSE_BLOCK :
                      nb_layers[i + 1] = NB_LAYERS_PER_BLOCK.value[i + 1]
                /\ \A i \in 1..NB_DENSE_BLOCK :
                      nb_layers[NB_DENSE_BLOCK + i + 1]
                          = NB_LAYERS_PER_BLOCK.value[NB_DENSE_BLOCK - i + 1]
           ELSE \A i \in 1..Len(nb_layers) : nb_layers[i] = NB_LAYERS_PER_BLOCK.value

C3_Witness ==
    /\ pc = "stem"
    /\ NB_DENSE_BLOCK = 5
    /\ NB_LAYERS_PER_BLOCK.is_list
    /\ nb_layers = <<4, 5, 7, 10, 12, 15, 12, 10, 7, 5, 4>>

\* C9 as stated: an image with H or W not a multiple of 2^blocks always ends
\* in a decoder stage whose TransitionUp output and skip connection differ
\* in size.
C9_AlwaysDecoderMismatch ==
    (Fed /\ BuildEnded /\ ~(Multiple(inputs.h) /\ Multiple(inputs.w))) =>
        /\ pc = "raised"
        /\ up_log # <<>>
        /\ ~SameSize(LastUp.t, LastUp.skip)

\* C9 as amended: such an image never gives an output.  Either a
\* TransitionDown meets a side shorter than the pooling window and raises
\* (only when that side of the image is below 2^blocks), or a decoder stage's
\* TransitionUp output and skip connection differ in size and their
\* concatenation raises; an image with both sides at least 2^blocks always ends
\* the second way.  Nothing refuses the image up front: the constraint is
\* carried by SIZE_FACTOR = 2^blocks alone.
C9_NoOutputOffMultiples ==
    (Fed /\ ~(Multiple(inputs.h) /\ Multiple(inputs.w))) =>
        /\ pc # "built"
        /\ outputs = NoTensor
        /\ \A i \in 1..Len(up_log) :
               i < Len(up_log) => SameSize(up_log[i].t, up_log[i].skip)
        /\ pc = "raised" =>
               \/ /\ up_log # <<>>
                  /\ ~SameSize(LastUp.t, LastUp.skip)
                  /\ err = "ValueError: concatenate: mismatched shapes"
               \/ /\ up_log = <<>>
                  /\ inputs.h < SIZE_FACTOR \/ inputs.w < SIZE_FACTOR
                  /\ x.h < POOL_SIZE \/ x.w < POOL_SIZE
                  /\ err = "ValueError: negative dimension size"
        /\ pc = "up" => (up_log = <<>> \/ SameSize(LastUp.t, LastUp.skip))

C9_Witness ==
    /\ pc = "raised"
    /\ NB_DENSE_BLOCK = 5
    /\ inputs.h = 33
    /\ inputs.w = 64
    /\ Len(up_log) = 5
    /\ LastUp.t.h = 32
    /\ LastUp.skip.h = 33

----------------------------------------------------------------------------
\* Claims about __dense_block.

DenseCalled == db_ret # NoReturn

\* C7: with grow_nb_filters false __dense_block returns the filter count it
\* received, for any layer count L >= 0; with it true, that count plus
\* L * growth_rate.  Either way the running tensor gains growth_rate channels
\* per layer and x_list has L + 1 entries: the block's input, then one
\* growth_rate-wide tensor per layer.
C7_DenseBlockFilterCount ==
    DenseCalled =>
        /\ db_ret.nb_filters =
               IF db_args.grow_nb_filters
               THEN db_args.nb_filters + db_args.nb_layers * db_args.growth_rate
               ELSE db_args.nb_filters
        /\ db_ret.x.c = db_args.x.c + db_args.nb_layers * db_args.growth_rate
        /\ SameSize(db_ret.x, db_args.x)
        /\ Len(db_ret.x_list) = db_args.nb_layers + 1
        /\ db_ret.x_list[1] = db_args.x
        /\ \A i \in 2..Len(db_ret.x_list) :
               /\ db_ret.x_list[i].c = db_args.growth_rate
               /\ SameSize(db_ret.x_list[i], db_args.x)

C7_Witness ==
    /\ DenseCalled
    /\ ~db_args.grow_nb_filters
    /\ db_args.nb_layers = 3
    /\ db_args.nb_filters = GROWTH_RATE
    /\ db_ret.nb_filters = GROWTH_RATE
    /\ db_ret.x.c = db_args.x.c + 3 * GROWTH_RATE

====
